---- MODULE Spec2Model ----
(***************************************************************************)
(* Adaptive Gauss-Kronrod integration (gausskronrod.py).                   *)
(*                                                                         *)
(* Numbers.  The program computes in binary floating point.  The model     *)
(* keeps what matters of that: abscissas live on a grid of representable   *)
(* points (the integers), and an operation whose exact result falls        *)
(* between two grid points rounds to the nearest one, ties to even, as     *)
(* IEEE arithmetic does.  Integral and error values are fixed point in     *)
(* units of 1/2, so that dx = 0.5*(b-a) needs no fraction: a stored v      *)
(* stands for v/2.  Ratios and orderings do not depend on the unit.        *)
(*                                                                         *)
(* Integrand.  f is a pure function; the quadrature rule sees it only      *)
(* through the two weighted sums over the nodes of the interval, so an     *)
(* integrand is modelled by the pair <<G7, K15>> of unscaled sums it       *)
(* yields on each interval, drawn from Observations the first time an      *)
(* interval is evaluated and remembered in fobs afterwards.                *)
(***************************************************************************)
EXTENDS Integers, Sequences, FiniteSets, TLC

\* ---------------------------------------------------------------- bounds
MaxCoord == 4
MaxMinIntervals == 2
MaxLimit == 3

Coords == 0..MaxCoord
\* tolerances as fractions <<numerator, denominator>>
Tolerances == { <<0, 1>>, <<1, 2>>, <<3000, 1>> }
\* <<G7 sum, K15 sum>> an integrand may yield on an interval
Observations == { <<1, 1>>, <<0, 1>>, <<1, -1>>, <<0, 0>> }

VARIABLES
    entry,          \* the entry point called
    a, b,           \* integration bounds
    minintervals, limit, tol,
    pc,             \* position of the call
    limits,         \* integrate: np.linspace(a, b, minintervals+1)
    idx,            \* integrate: index of the next pair of limits
    intervals,      \* integrate: sorted list of (err, left, right, I)
    ret,            \* the value returned
    nquad,          \* batched integrand evaluations made by this call
    npop,           \* intervals popped for bisection by this call
    fobs,           \* what the integrand has yielded: {<<left, right, obs>>}
    run,            \* 1: first call, 2: the call repeated with a larger limit
    first           \* outcome of the first call, once it is repeated

vars == << entry, a, b, minintervals, limit, tol, pc, limits, idx, intervals,
           ret, nquad, npop, fobs, run, first >>

\* ------------------------------------------------------- Python values
PyNone == [type |-> "NoneType", value |-> 0, error |-> 0]
PyFalse == [type |-> "bool", value |-> 0, error |-> 0]
PyTuple(v, e) == [type |-> "tuple", value |-> v, error |-> e]

\* x == y of Python for a returned object x and a number y: bool is a
\* subclass of int, False == 0 and True == 1; a tuple equals no number.
PyEq(x, y) == x.type \in {"bool", "int", "float"} /\ x.value = y

Abs(x) == IF x < 0 THEN -x ELSE x

\* ----------------------------------------------------- float rounding
\* p/q (q > 0) rounded to the nearest grid point, ties to even
RoundHalfEven(p, q) ==
    LET fl == p \div q
        rem == p % q
    IN  IF 2 * rem < q THEN fl
        ELSE IF 2 * rem > q THEN fl + 1
        ELSE IF fl % 2 = 0 THEN fl ELSE fl + 1

RECURSIVE SqrtSearch(_, _, _)
SqrtSearch(x, lo, hi) ==
    IF lo >= hi THEN lo
    ELSE LET m == (lo + hi + 1) \div 2
         IN  IF m * m <= x THEN SqrtSearch(x, m, hi) ELSE SqrtSearch(x, lo, m - 1)

\* math.sqrt, rounded down to the fixed-point grid
Sqrt(x) == SqrtSearch(x, 0, 46340)

\* x**1.5
Pow15(x) == Sqrt(x * x * x)

\* ------------------------------------------------ integrate_gausskronrod
\* assert b > a
QuadPreBug(lo, hi) == hi >= lo
QuadPre(lo, hi) == hi > lo

\* error = (200*abs(integral_G7-integral_K15))**1.5
ErrorEstimate(g7, k15) == Pow15(200 * Abs(g7 - k15))

\* return integral_K15*dx, dx*error   (dx = 0.5*(b-a); values in halves)
Quadrature(lo, hi, obs) ==
    << obs[2] * (hi - lo), (hi - lo) * ErrorEstimate(obs[1], obs[2]) >>

\* integrand = f(zi): what a deterministic f can yield on [lo, hi]
Observe(seen, lo, hi) ==
    IF \E r \in seen : r[1] = lo /\ r[2] = hi
    THEN { r[3] : r \in { s \in seen : s[1] = lo /\ s[2] = hi } }
    ELSE Observations

Record(seen, lo, hi, obs) == seen \cup { <<lo, hi, obs>> }

\* ------------------------------------------------------------ integrate
\* np.linspace(a, b, num): num points, the last one exactly b
LinspaceNoEndpoint(lo, hi, num) ==
    [ k \in 1..num |-> lo + RoundHalfEven((k - 1) * (hi - lo), num) ]
Linspace(lo, hi, num) ==
    [ k \in 1..num |->
        IF k = num THEN hi ELSE lo + RoundHalfEven((k - 1) * (hi - lo), num - 1) ]

\* Python's tuple comparison x < y: lexicographic
RECURSIVE TupleLessFrom(_, _, _)
TupleLessFrom(x, y, k) ==
    IF k > Len(x) THEN FALSE
    ELSE IF x[k] # y[k] THEN x[k] < y[k]
    ELSE TupleLessFrom(x, y, k + 1)

TupleLess(x, y) == TupleLessFrom(x, y, 1)

\* bisect.bisect_right(s, x, lo, hi), indices as Python's (0-based)
RECURSIVE BisectRight(_, _, _, _)
BisectRight(s, x, lo, hi) ==
    IF lo >= hi THEN lo
    ELSE LET m == (lo + hi) \div 2
         IN  IF TupleLess(x, s[m + 1]) THEN BisectRight(s, x, lo, m)
             ELSE BisectRight(s, x, m + 1, hi)

\* bisect.insort(s, x)
InsortAppend(s, x) == Append(s, x)
Insort(s, x) ==
    LET p == BisectRight(s, x, 0, Len(s))
    IN  SubSeq(s, 1, p) \o << x >> \o SubSeq(s, p + 1, Len(s))

\* intervals.pop(): the last item, and the list without it
PopPeek(s) == [item |-> s[Len(s)], rest |-> s]
Pop(s) == [item |-> s[Len(s)], rest |-> SubSeq(s, 1, Len(s) - 1)]

\* mid = left+(right-left)/2
Mid(left, right) == RoundHalfEven(2 * left + (right - left), 2)

RECURSIVE SumOf(_, _)
SumOf(s, k) == IF s = << >> THEN 0 ELSE s[1][k] + SumOf(Tail(s), k)

RECURSIVE SumSquares(_, _)
SumSquares(s, k) == IF s = << >> THEN 0 ELSE s[1][k] * s[1][k] + SumSquares(Tail(s), k)

\* Itotal = sum([x[3] for x in intervals])
Itotal(s) == SumOf(s, 4)
\* err = sqrt(sum([x[0]**2 for x in intervals]))
Etotal(s) == Sqrt(SumSquares(s, 1))

\* abs(err/Itotal) < tol.  Itotal is a numpy float: err/0 is inf or nan,
\* never an exception, and neither compares below tol.
ToleranceMetLe(it, err, t) == it # 0 /\ err * t[2] <= t[1] * Abs(it)
ToleranceMet(it, err, t) == it # 0 /\ err * t[2] < t[1] * Abs(it)

\* one pass over the two checks at the head of the loop
OutcomeLimitFirst(s, lim, t) ==
    IF Len(s) >= lim THEN "FAILED"
    ELSE IF ToleranceMet(Itotal(s), Etotal(s), t) THEN "CONVERGED"
    ELSE "REFINE"
OutcomeOffByOne(s, lim, t) ==
    IF ToleranceMet(Itotal(s), Etotal(s), t) THEN "CONVERGED"
    ELSE IF Len(s) > lim THEN "FAILED"
    ELSE "REFINE"
OutcomeAtLimitOnly(s, lim, t) ==
    IF Len(s) < lim THEN "REFINE"
    ELSE IF ToleranceMet(Itotal(s), Etotal(s), t) THEN "CONVERGED"
    ELSE "FAILED"
Outcome(s, lim, t) ==
    IF ToleranceMet(Itotal(s), Etotal(s), t) THEN "CONVERGED"
    ELSE IF Len(s) >= lim THEN "FAILED"
    ELSE "REFINE"

Terminal == {"RETURNED", "CONVERGED", "FAILED", "RAISED"}

\* ----------------------------------------------------------------- Init
Init ==
    /\ entry \in {"integrate_gausskronrod", "integrate"}
    /\ a \in Coords
    /\ b \in Coords
    /\ minintervals \in 1..MaxMinIntervals
    /\ limit \in 1..MaxLimit
    /\ tol \in Tolerances
    /\ pc = "START"
    /\ limits = << >>
    /\ idx = 1
    /\ intervals = << >>
    /\ ret = PyNone
    /\ nquad = 0
    /\ npop = 0
    /\ fobs = {}
    /\ run = 1
    /\ first = [pc |-> "NONE", ret |-> PyNone]

\* -------------------------------------------------------------- actions
\* integrate_gausskronrod(f, a, b) called directly
QuadCall ==
    /\ pc = "START"
    /\ entry = "integrate_gausskronrod"
    /\ IF ~QuadPre(a, b)
       THEN /\ pc' = "RAISED"
            /\ UNCHANGED << ret, nquad, fobs >>
       ELSE \E obs \in Observe(fobs, a, b) :
                /\ ret' = PyTuple(Quadrature(a, b, obs)[1], Quadrature(a, b, obs)[2])
                /\ nquad' = nquad + 1
                /\ fobs' = Record(fobs, a, b, obs)
                /\ pc' = "RETURNED"
    /\ UNCHANGED << entry, a, b, minintervals, limit, tol, limits, idx,
                    intervals, npop, run, first >>

\* integrate: fv, intervals = [], limits = np.linspace(...)
Start ==
    /\ pc = "START"
    /\ entry = "integrate"
    /\ intervals' = << >>
    /\ limits' = Linspace(a, b, minintervals + 1)
    /\ idx' = 1
    /\ pc' = "INITIALIZING"
    /\ UNCHANGED << entry, a, b, minintervals, limit, tol, ret, nquad, npop,
                    fobs, run, first >>

\* one iteration of the loop over zip(limits[:-1], limits[1:])
Seed ==
    /\ pc = "INITIALIZING"
    /\ LET left == limits[idx]
           right == limits[idx + 1]
       IN  IF ~QuadPre(left, right)
           THEN /\ pc' = "RAISED"
                /\ UNCHANGED << idx, intervals, nquad, fobs >>
           ELSE \E obs \in Observe(fobs, left, right) :
                    LET q == Quadrature(left, right, obs)
                    IN  /\ intervals' = Insort(intervals, << q[2], left, right, q[1] >>)
                        /\ nquad' = nquad + 1
                        /\ fobs' = Record(fobs, left, right, obs)
                        /\ idx' = idx + 1
                        /\ pc' = IF idx + 1 = Len(limits) THEN "REFINING"
                                 ELSE "INITIALIZING"
    /\ UNCHANGED << entry, a, b, minintervals, limit, tol, limits, ret, npop,
                    run, first >>

\* if abs(err/Itotal) < tol: return Itotal, err
Converge ==
    /\ pc = "REFINING"
    /\ Outcome(intervals, limit, tol) = "CONVERGED"
    /\ ret' = PyTuple(Itotal(intervals), Etotal(intervals))
    /\ pc' = "CONVERGED"
    /\ UNCHANGED << entry, a, b, minintervals, limit, tol, limits, idx,
                    intervals, nquad, npop, fobs, run, first >>

\* if len(intervals) >= limit: return False
Fail ==
    /\ pc = "REFINING"
    /\ Outcome(intervals, limit, tol) = "FAILED"
    /\ ret' = PyFalse
    /\ pc' = "FAILED"
    /\ UNCHANGED << entry, a, b, minintervals, limit, tol, limits, idx,
                    intervals, nquad, npop, fobs, run, first >>

\* pop the last interval, bisect it, evaluate and insert the two halves
Refine ==
    /\ pc = "REFINING"
    /\ Outcome(intervals, limit, tol) = "REFINE"
    /\ npop' = npop + 1
    /\ LET p == Pop(intervals)
           left == p.item[2]
           right == p.item[3]
           mid == Mid(left, right)
       IN  IF ~QuadPre(left, mid)
           THEN /\ intervals' = p.rest
                /\ pc' = "RAISED"
                /\ UNCHANGED << nquad, fobs >>
           ELSE \E o1 \in Observe(fobs, left, mid) :
                    LET q1 == Quadrature(left, mid, o1)
                        s1 == Insort(p.rest, << q1[2], left, mid, q1[1] >>)
                        f1 == Record(fobs, left, mid, o1)
                    IN  IF ~QuadPre(mid, right)
                        THEN /\ intervals' = s1
                             /\ nquad' = nquad + 1
                             /\ fobs' = f1
                             /\ pc' = "RAISED"
                        ELSE \E o2 \in Observe(f1, mid, right) :
                                 LET q2 == Quadrature(mid, right, o2)
                                 IN  /\ intervals' =
                                            Insort(s1, << q2[2], mid, right, q2[1] >>)
                                     /\ nquad' = nquad + 2
                                     /\ fobs' = Record(f1, mid, right, o2)
                                     /\ pc' = "REFINING"
    /\ UNCHANGED << entry, a, b, minintervals, limit, tol, limits, idx, ret,
                    run, first >>

\* the caller repeats a finished integrate call with the same integrand,
\* bounds, minintervals and tol, and a larger limit
Repeat ==
    /\ pc \in Terminal
    /\ entry = "integrate"
    /\ run = 1
    /\ \E l2 \in (limit + 1)..MaxLimit : limit' = l2
    /\ first' = [pc |-> pc, ret |-> ret]
    /\ run' = 2
    /\ pc' = "START"
    /\ limits' = << >>
    /\ idx' = 1
    /\ intervals' = << >>
    /\ ret' = PyNone
    /\ nquad' = 0
    /\ npop' = 0
    /\ UNCHANGED << entry, a, b, minintervals, tol, fobs >>

Next == QuadCall \/ Start \/ Seed \/ Converge \/ Fail \/ Refine \/ Repeat

Spec == Init /\ [][Next]_vars

\* ==================================================================
\* Properties
\* ==================================================================
Active == {"REFINING", "CONVERGED", "FAILED"}

Range(s) == { s[k] : k \in 1..Len(s) }

\* the order of the indices of s by left endpoint
ByLeft(s) ==
    CHOOSE p \in Permutations(1..Len(s)) :
        \A i, j \in 1..Len(s) : i < j => s[p[i]][2] <= s[p[j]][2]

IsPartition(s, lo, hi) ==
    LET p == ByLeft(s)
        n == Len(s)
    IN  /\ n >= 1
        /\ s[p[1]][2] = lo
        /\ s[p[n]][3] = hi
        /\ \A k \in 1..n : s[k][3] > s[k][2]
        /\ \A k \in 1..(n - 1) : s[p[k]][3] = s[p[k + 1]][2]

RECURSIVE Widths(_)
Widths(s) == IF s = << >> THEN 0 ELSE (s[1][3] - s[1][2]) + Widths(Tail(s))

\* C1: once the initial partition is built, and after every refinement
\* step, the active intervals ordered by left endpoint are contiguous and
\* non-overlapping from a to b, each with right > left, and their widths
\* sum to b - a.
C1_PartitionInvariant ==
    pc \in Active =>
        IsPartition(intervals, a, b) /\ Widths(intervals) = b - a

C1_Witness ==
    /\ pc = "REFINING"
    /\ npop >= 1
    /\ Len(intervals) >= 3
    /\ \E x, y \in Range(intervals) : x[3] - x[2] # y[3] - y[2]

\* C2: the outcome returned when the limit is reached without meeting the
\* tolerance never compares equal to the number zero.
C2_FailureDistinctFromZero ==
    pc = "FAILED" => ~PyEq(ret, 0)

\* C3: with b <= a neither entry point evaluates the integrand or returns
\* anything: the call can only end by raising, and does so before the
\* first evaluation.
C3_PreconditionError ==
    b <= a =>
        /\ nquad = 0
        /\ ret = PyNone
        /\ pc \in {"START", "INITIALIZING", "RAISED"}
        /\ pc = "INITIALIZING" => idx = 1 /\ ~QuadPre(limits[1], limits[2])
        /\ intervals = << >>

C3_Witness ==
    b = a /\ pc = "RAISED" /\ entry = "integrate" /\ minintervals = 2

\* C4: a returned pair holds the sum of the I of the active intervals and
\* the root of the sum of their squared err, and its relative error is
\* below tol.
C4_SuccessPostcondition ==
    pc = "CONVERGED" =>
        /\ ret.type = "tuple"
        /\ ret.value = SumOf(intervals, 4)
        /\ ret.error = Sqrt(SumSquares(intervals, 1))
        /\ ret.value # 0
        /\ ret.error * tol[2] < tol[1] * Abs(ret.value)

C4_Witness ==
    pc = "CONVERGED" /\ npop >= 1 /\ ret.error > 0 /\ Len(intervals) >= 2

Max(x, y) == IF x >= y THEN x ELSE y

\* C5: a call of integrate with a < b that has ended has ended CONVERGED
\* or FAILED, after at most max(0, limit - minintervals) bisections.
C5_EndsConvergedOrFailed ==
    (entry = "integrate" /\ a < b /\ pc \in Terminal) =>
        /\ pc \in {"CONVERGED", "FAILED"}
        /\ npop <= Max(0, limit - minintervals)

\* C6 (as claimed): the number of active intervals never exceeds limit.
C6_NeverExceedsLimit ==
    Len(intervals) <= limit

\* C6 (amended): the number of active intervals never exceeds the larger
\* of limit and minintervals, and a bisection is only started from fewer
\* than limit intervals.
C6_NeverExceedsLimitOrSeed ==
    /\ Len(intervals) <= Max(limit, minintervals)
    /\ npop >= 1 => Len(intervals) <= limit

C6_Witness ==
    /\ pc = "FAILED"
    /\ npop >= 1
    /\ Len(intervals) = limit

\* |e1/v1| <= |e2/v2| for returned pairs with nonzero values
RelErrLe(r1, r2) == r1.error * Abs(r2.value) <= r2.error * Abs(r1.value)

\* C7: when a call that converged is repeated with a larger limit, the
\* repeated call converges too, with a relative error no larger.
C7_MonotonicRefinement ==
    (run = 2 /\ first.pc = "CONVERGED") =>
        /\ pc # "FAILED"
        /\ pc # "RAISED"
        /\ pc = "REFINING" => Outcome(intervals, limit, tol) # "FAILED"
        /\ pc = "CONVERGED" => RelErrLe(ret, first.ret)

C7_Witness ==
    /\ run = 2
    /\ first.pc = "CONVERGED"
    /\ pc = "CONVERGED"
    /\ npop >= 1
    /\ first.ret.error > 0

\* the intervals of s that a step removed
Removed(s, t) == Range(s) \ Range(t)

C9_CheckOrder ==
    [][ pc = "REFINING" =>
          LET met == /\ Itotal(intervals) # 0
                     /\ Etotal(intervals) * tol[2] < tol[1] * Abs(Itotal(intervals))
          IN  /\ pc' = "FAILED" => (Len(intervals) >= limit /\ ~met)
              /\ met => pc' = "CONVERGED"
              /\ (met \/ Len(intervals) >= limit) =>
                    (intervals' = intervals /\ npop' = npop /\ nquad' = nquad)
              /\ (~met /\ Len(intervals) >= limit) => pc' = "FAILED" ]_vars

C9_Witness ==
    pc = "CONVERGED" /\ Len(intervals) > limit

\* C10: a completed refinement step replaces one interval (left, right) by
\* its halves (left, mid) and (mid, right), mid the midpoint up to
\* rounding, and leaves every other interval as it was; the number of
\* intervals grows by one.
C10_RefineFrame ==
    [][ (pc = "REFINING" /\ pc' = "REFINING") =>
          /\ Len(intervals') = Len(intervals) + 1
          /\ \E r \in Range(intervals) : \E h1, h2 \in Range(intervals') :
                /\ h1[2] = r[2]
                /\ h1[3] = h2[2]
                /\ h2[3] = r[3]
                /\ h1[2] < h1[3]
                /\ h2[2] < h2[3]
                /\ Abs(2 * h1[3] - (r[2] + r[3])) <= 1
                /\ Range(intervals') = (Range(intervals) \ {r}) \cup {h1, h2}
                /\ Cardinality(Range(intervals')) = Len(intervals') ]_vars

C10_Witness ==
    /\ pc = "REFINING"
    /\ npop >= 2
    /\ Len(intervals) = minintervals + 2

====
